---- MODULE Spec2Model ----
(***************************************************************************)
(* Doc-reader chatbot: the Streamlit session of app.py (Load Document,     *)
(* chat input) and the stand-alone classes of vector_store.py and          *)
(* chatbot.py, with their collaborators (HTTP fetch, text splitter, vector *)
(* index, chat-completions client) as inputs drawn from small sets.        *)
(*                                                                         *)
(* Python strings are TLA+ strings; an f-string is the concatenation of    *)
(* its pieces.  A Python object is a record; a VectorStore carries an      *)
(* object number (oid) so that "the same object" can be told from "an      *)
(* equal object".  A store is written only by ingest_document, which both  *)
(* entry points call before any chatbot refers to the store, so the record *)
(* held in chatbot.vector_store is the object the reference points to.     *)
(***************************************************************************)
EXTENDS Integers, Sequences, FiniteSets, TLC

VARIABLES build, vector_store, chatbot, messages, doc_loaded, nstores,
          asked, last

vars == <<build, vector_store, chatbot, messages, doc_loaded, nstores,
          asked, last>>

\* Bounds of the exploration: VectorStore objects constructed, questions
\* taken.
MaxStores == 2
MaxQuestions == 2

\* top_k=3 in generate_response's call of retrieve.
TopK == 3

None == [none |-> TRUE]

(***************************************************************************)
(* Inputs                                                                  *)
(***************************************************************************)
\* Texts a document source can return.
Texts == {"", "The sky is blue.", "p0 p1 p2 p3"}

Queries == {"What color is the sky?", "Why?"}

\* Texts the chat-completions client can return.
Answers == {"Blue [Section 0]."}

DocUrls == {"", "https://docs.google.com/document/d/DOC1/edit"}

ApiKeys == {"", "gsk_key"}

\* requests.get: a network exception, or a response.
HttpOutcomes ==
    {[raised |-> TRUE, status_code |-> 0, text |-> "", msg |-> "connection refused"],
     [raised |-> FALSE, status_code |-> 404, text |-> "", msg |-> ""]}
    \cup {[raised |-> FALSE, status_code |-> 200, text |-> t, msg |-> ""] : t \in Texts}

\* VectorStore(): chromadb.Client, the embedding function and
\* create_collection return, or one of them raises.
CtorOutcomes ==
    {[raised |-> FALSE, msg |-> ""],
     [raised |-> TRUE, msg |-> "Collection doc_collection already exists"]}

\* RAGChatbot(): the import of groq and Groq(api_key) return, or raise.
GroqOutcomes ==
    {[raised |-> FALSE, msg |-> ""],
     [raised |-> TRUE, msg |-> "No module named 'groq'"]}

\* collection.add of n items: all n stored, or an exception with a prefix
\* of the batch (none of it, or all but the last item) left in the
\* collection.
AddOutcomes(n) ==
    {[raised |-> FALSE, msg |-> "", stored |-> n]}
    \cup {[raised |-> TRUE, msg |-> "embedding failed", stored |-> k] :
            k \in IF n = 0 THEN {0} ELSE {0, n - 1}}

Min(a, b) == IF a < b THEN a ELSE b

\* The rankings collection.query returns over n stored chunks in the model:
\* min(k, n) distinct positions, starting at any chunk and going up or down
\* the ordinals, wrapping around; the empty list over an empty collection.
Rankings(n, k) ==
    IF n = 0
    THEN {<<>>}
    ELSE {[i \in 1..Min(k, n) |-> ((start - 1 + dir * (i - 1)) % n) + 1] :
            start \in 1..n, dir \in {1, -1}}


\* client.chat.completions.create and the read of choices[0].message.content.
GenOutcomes ==
    {[raised |-> TRUE, msg |-> "rate limit exceeded", content |-> ""]}
    \cup {[raised |-> FALSE, msg |-> "", content |-> a] : a \in Answers}

(***************************************************************************)
(* Strings                                                                 *)
(***************************************************************************)
\* t occurs in s at position i.
OccursAt(s, t, i) == i >= 1 /\ i + Len(t) - 1 <= Len(s) /\ SubSeq(s, i, i + Len(t) - 1) = t

\* The positions at which t occurs in s.
Occurrences(s, t) == {i \in 1..(Len(s) - Len(t) + 1) : OccursAt(s, t, i)}

\* Python's  t in s.
Contains(s, t) == \E i \in 1..(Len(s) - Len(t) + 1) : OccursAt(s, t, i)

\* First position of t in s, 0 when t does not occur.
Pos(s, t) ==
    LET occ == Occurrences(s, t)
    IN  IF occ = {} THEN 0 ELSE CHOOSE i \in occ : \A j \in occ : i <= j

\* Number of occurrences of t in s.
Count(s, t) == Cardinality(Occurrences(s, t))

StartsWith(s, t) == OccursAt(s, t, 1)

(***************************************************************************)
(* Document loader (app.py)                                                *)
(***************************************************************************)
fetch_google_doc(http) ==
    LET inner ==
            IF http.raised THEN [raised |-> TRUE, msg |-> http.msg, value |-> ""]
            ELSE IF http.status_code = 200
                 THEN [raised |-> FALSE, msg |-> "", value |-> http.text]
                 ELSE [raised |-> TRUE, value |-> "",
                       msg |-> "Failed to fetch document. Status code: "
                               \o ToString(http.status_code)]
    IN  IF inner.raised
        THEN [raised |-> TRUE, value |-> "", msg |-> "Error fetching document: " \o inner.msg]
        ELSE inner

(***************************************************************************)
(* VectorStore                                                             *)
(***************************************************************************)
\* VectorStore.__init__ once the client and the collection exist.
\* ingested is a ghost field: ingest_document has returned on this object.
NewVectorStore(oid) ==
    [oid |-> oid, ids |-> <<>>, documents |-> <<>>, metadatas |-> <<>>, ingested |-> FALSE]

\* RecursiveCharacterTextSplitter.split_text on the model's texts (the
\* splitter is a library; this is its result on each text, with a chunk
\* size that makes every word of the long text a chunk).
chunk_text(text) ==
    CASE text = "" -> <<>>
      [] text = "The sky is blue." -> <<"The sky is blue.">>
      [] text = "p0 p1 p2 p3" -> <<"p0", "p1", "p2", "p3">>

\* The largest number of chunks a text of the model splits into.
MaxChunks ==
    CHOOSE n \in {Len(chunk_text(t)) : t \in Texts} :
        \A t \in Texts : Len(chunk_text(t)) <= n

\* collection.query with n_results=TopK over n stored chunks: an exception,
\* or a ranking.
QueryTable ==
    [n \in 0..MaxChunks |->
        {[raised |-> TRUE, msg |-> "index unavailable", rank |-> <<>>]}
        \cup {[raised |-> FALSE, msg |-> "", rank |-> r] : r \in Rankings(n, TopK)}]

QueryOutcomes(n) == QueryTable[n]

\* doc_metadata.get(key, default)
DictGet(d, key, default) == IF key \in DOMAIN d THEN d[key] ELSE default

\* collection.add(documents, metadatas, ids) with outcome add.
collection_add(self, documents, metadatas, ids, add) ==
    [self EXCEPT !.ids = self.ids \o SubSeq(ids, 1, add.stored),
                 !.documents = self.documents \o SubSeq(documents, 1, add.stored),
                 !.metadatas = self.metadatas \o SubSeq(metadatas, 1, add.stored)]

IngestIds(chunks) == [i \in 1..Len(chunks) |-> "chunk_" \o ToString(i - 1)]

\* Variant: ordinals counted from 1.
IngestMetadatas_OneBased(chunks, doc_metadata) ==
    [i \in 1..Len(chunks) |->
        [source |-> DictGet(doc_metadata, "title", "Unknown"), chunk_id |-> i]]

IngestMetadatas(chunks, doc_metadata) ==
    [i \in 1..Len(chunks) |->
        [source |-> DictGet(doc_metadata, "title", "Unknown"), chunk_id |-> i - 1]]

\* VectorStore.ingest_document: the store afterwards, and the count
\* returned or the exception of collection.add.
ingest_document(self, text, doc_metadata, add) ==
    LET chunks == chunk_text(text)
        ids == IngestIds(chunks)
        metadatas == IngestMetadatas(chunks, doc_metadata)
        added == collection_add(self, chunks, metadatas, ids, add)
    IN  IF add.raised
        THEN [raised |-> TRUE, msg |-> add.msg, value |-> 0, self |-> added]
        ELSE [raised |-> FALSE, msg |-> "", value |-> Len(chunks),
              self |-> [added EXCEPT !.ingested = TRUE]]

\* VectorStore.retrieve: the 'documents' and 'metadatas' of the first query
\* ('distances' is returned too and read by no caller).
retrieve(self, query, top_k, q) ==
    IF q.raised
    THEN [raised |-> TRUE, msg |-> q.msg, documents |-> <<>>, metadatas |-> <<>>]
    ELSE [raised |-> FALSE, msg |-> "",
          documents |-> [i \in 1..Len(q.rank) |-> self.documents[q.rank[i]]],
          metadatas |-> [i \in 1..Len(q.rank) |-> self.metadatas[q.rank[i]]]]

(***************************************************************************)
(* RAGChatbot                                                              *)
(***************************************************************************)
Sentinel == "I couldn't find relevant information in the document to answer your question."

\* One pass of the loop body:  context += f"\n[Section {meta['chunk_id']}]: {doc}\n"
Segment(doc, meta) == "\n[Section " \o ToString(meta.chunk_id) \o "]: " \o doc \o "\n"

\* Variant: the loop stops one pair early.
RECURSIVE BuildContext_DropsLast(_, _, _)
BuildContext_DropsLast(documents, metadatas, i) ==
    IF i >= Min(Len(documents), Len(metadatas))
    THEN ""
    ELSE Segment(documents[i], metadatas[i])
         \o BuildContext_DropsLast(documents, metadatas, i + 1)

\* The loop over zip(documents, metadatas), from pair i on.
RECURSIVE BuildContext(_, _, _)
BuildContext(documents, metadatas, i) ==
    IF i > Min(Len(documents), Len(metadatas))
    THEN ""
    ELSE Segment(documents[i], metadatas[i]) \o BuildContext(documents, metadatas, i + 1)

\* The user_prompt f-string.
UserPrompt(context, user_query) ==
    "Context from document:\n" \o context \o "\n\nUser Question: " \o user_query
    \o "\n\nProvide a concise answer with inline citations like [Section X]. "
    \o "If the answer isn't in the context, say \"This information isn't in the document.\"\n"

\* RAGChatbot.__init__ of app.py once Groq(api_key) has returned.
NewRAGChatbot(store, api_key) ==
    [vector_store |-> store, api_key |-> api_key, conversation_history |-> <<>>]

\* RAGChatbot.__init__ of chatbot.py.  The key goes to the client and is
\* not kept on the object; use_groq picks the client and the model name,
\* and generate_response calls the one or the other completion API with the
\* same arguments, so the object keeps no trace of it here.
NewModuleRAGChatbot(store, api_key, use_groq) ==
    [vector_store |-> store, conversation_history |-> <<>>]

\* What a call of generate_response did: the string returned (ret) or that
\* an exception left the call (raised), the chatbot afterwards, whether the
\* chat-completions client was called and with which user prompt, and which
\* branch ended the call.
Outcome(ret, raised, self, genInvoked, prompt, branch) ==
    [ret |-> ret, raised |-> raised, self |-> self, genInvoked |-> genInvoked,
     prompt |-> prompt, branch |-> branch]

\* Variant: no test for an empty retrieval result.
generate_response_NoShortCircuit(self, user_query, q, gen) ==
    LET retrieval_results == retrieve(self.vector_store, user_query, TopK, q)
        context == BuildContext(retrieval_results.documents, retrieval_results.metadatas, 1)
        user_prompt == UserPrompt(context, user_query)
    IN  IF retrieval_results.raised
        THEN Outcome("Error retrieving information: " \o retrieval_results.msg,
                     FALSE, self, FALSE, "", "retrieval_error")
        ELSE IF gen.raised
        THEN Outcome("Error generating response: " \o gen.msg,
                     FALSE, self, TRUE, user_prompt, "generation_error")
        ELSE Outcome(gen.content, FALSE,
                     [self EXCEPT !.conversation_history =
                         Append(@, [query |-> user_query, answer |-> gen.content])],
                     TRUE, user_prompt, "answer")

\* Variant: the completion call is not wrapped in try/except.
generate_response_Propagates(self, user_query, q, gen) ==
    LET retrieval_results == retrieve(self.vector_store, user_query, TopK, q)
        context == BuildContext(retrieval_results.documents, retrieval_results.metadatas, 1)
        user_prompt == UserPrompt(context, user_query)
    IN  IF retrieval_results.raised
        THEN Outcome("Error retrieving information: " \o retrieval_results.msg,
                     FALSE, self, FALSE, "", "retrieval_error")
        ELSE IF retrieval_results.documents = <<>>
        THEN Outcome(Sentinel, FALSE, self, FALSE, "", "no_results")
        ELSE IF gen.raised
        THEN Outcome("", TRUE, self, TRUE, user_prompt, "generation_error")
        ELSE Outcome(gen.content, FALSE,
                     [self EXCEPT !.conversation_history =
                         Append(@, [query |-> user_query, answer |-> gen.content])],
                     TRUE, user_prompt, "answer")

\* RAGChatbot.generate_response of app.py; q is the outcome of
\* collection.query and gen that of the chat-completions call.
generate_response(self, user_query, q, gen) ==
    LET retrieval_results == retrieve(self.vector_store, user_query, TopK, q)
        context == BuildContext(retrieval_results.documents, retrieval_results.metadatas, 1)
        user_prompt == UserPrompt(context, user_query)
    IN  IF retrieval_results.raised
        THEN Outcome("Error retrieving information: " \o retrieval_results.msg,
                     FALSE, self, FALSE, "", "retrieval_error")
        ELSE IF retrieval_results.documents = <<>>
        THEN Outcome(Sentinel, FALSE, self, FALSE, "", "no_results")
        ELSE IF gen.raised
        THEN Outcome("Error generating response: " \o gen.msg,
                     FALSE, self, TRUE, user_prompt, "generation_error")
        ELSE Outcome(gen.content, FALSE,
                     [self EXCEPT !.conversation_history =
                         Append(@, [query |-> user_query, answer |-> gen.content])],
                     TRUE, user_prompt, "answer")

\* RAGChatbot.generate_response of chatbot.py: no try/except, so an
\* exception of retrieve or of the completion call leaves the call.
module_generate_response(self, user_query, q, gen) ==
    LET retrieval_results == retrieve(self.vector_store, user_query, TopK, q)
        context == BuildContext(retrieval_results.documents, retrieval_results.metadatas, 1)
        user_prompt == UserPrompt(context, user_query)
    IN  IF retrieval_results.raised
        THEN Outcome("", TRUE, self, FALSE, "", "retrieval_error")
        ELSE IF retrieval_results.documents = <<>>
        THEN Outcome(Sentinel, FALSE, self, FALSE, "", "no_results")
        ELSE IF gen.raised
        THEN Outcome("", TRUE, self, TRUE, user_prompt, "generation_error")
        ELSE Outcome(gen.content, FALSE,
                     [self EXCEPT !.conversation_history =
                         Append(@, [query |-> user_query, answer |-> gen.content,
                                    context |-> [documents |-> retrieval_results.documents,
                                                 metadatas |-> retrieval_results.metadatas]])],
                     TRUE, user_prompt, "answer")

(***************************************************************************)
(* Streamlit script of app.py: one run per user event                      *)
(***************************************************************************)
NotReadyInfo == "Load a Google Doc from the sidebar to start!"

ReadyInfo == "Document ready!"

\* The sidebar's "Load Document" block and the "Document ready!" line.
\* s is st.session_state; clicked is st.button's value in this run.
\* shown lists the st.success / st.error / st.info texts (without their
\* leading emoji); text and count are the arguments and result of
\* ingest_document when it was called (ingestCalled).
Sidebar(s, clicked, doc_url, api_key, http, ctor, add, groq) ==
    LET content == fetch_google_doc(http)
        ing == ingest_document(NewVectorStore(s.nstores + 1), content.value,
                               [title |-> "User Document"], add)
        ready(t) == IF t.doc_loaded THEN <<ReadyInfo>> ELSE <<>>
        fail(t, msg, called, n) ==
            [s |-> t, status |-> "error", shown |-> <<"Error: " \o msg>> \o ready(t),
             ingestCalled |-> called, text |-> IF called THEN content.value ELSE "",
             count |-> n]
        stored == [s EXCEPT !.vector_store = ing.self, !.nstores = s.nstores + 1]
        done == [stored EXCEPT !.chatbot = NewRAGChatbot(ing.self, api_key),
                               !.doc_loaded = TRUE]
    IN  IF ~(clicked /\ doc_url # "" /\ api_key # "")
        THEN [s |-> s, status |-> "skipped", shown |-> ready(s),
              ingestCalled |-> FALSE, text |-> "", count |-> 0]
        ELSE IF content.raised THEN fail(s, content.msg, FALSE, 0)
        ELSE IF ctor.raised THEN fail(s, ctor.msg, FALSE, 0)
        ELSE IF ing.raised THEN fail(stored, ing.msg, TRUE, 0)
        ELSE IF groq.raised THEN fail(stored, groq.msg, TRUE, ing.value)
        ELSE [s |-> done, status |-> "success",
              shown |-> <<"Document loaded! Created " \o ToString(ing.value) \o " chunks.">>
                        \o ready(done),
              ingestCalled |-> TRUE, text |-> content.value, count |-> ing.value]

\* Variant: the chat branch is not guarded by doc_loaded; with no chatbot
\* the call of generate_response fails on None and the run ends there.
MainInterface_NoReadyCheck(s, prompt, q, gen) ==
    LET idle(t, shown) ==
            [s |-> t, main |-> shown, asked |-> FALSE, query |-> "", ret |-> "",
             raised |-> FALSE, genInvoked |-> FALSE, prompt |-> "", branch |-> ""]
        m1 == Append(s.messages, [role |-> "user", content |-> prompt])
        r == IF s.chatbot = None
             THEN Outcome("", TRUE, None, FALSE, "", "")
             ELSE generate_response(s.chatbot, prompt, q, gen)
        m2 == Append(m1, [role |-> "assistant", content |-> r.ret])
        m3 == Append(m2, [role |-> "assistant", content |-> r.ret])
    IN  IF prompt = "" THEN idle(s, "chat")
        ELSE [s |-> [s EXCEPT !.chatbot = r.self,
                              !.messages = IF r.raised THEN m1 ELSE m3],
              main |-> "chat", asked |-> TRUE, query |-> prompt, ret |-> r.ret,
              raised |-> r.raised, genInvoked |-> r.genInvoked, prompt |-> r.prompt,
              branch |-> r.branch]

\* The main interface.  prompt is what st.chat_input returns when it is
\* called ("" when nothing was submitted in this run).
MainInterface(s, prompt, q, gen) ==
    LET idle(t, shown) ==
            [s |-> t, main |-> shown, asked |-> FALSE, query |-> "", ret |-> "",
             raised |-> FALSE, genInvoked |-> FALSE, prompt |-> "", branch |-> ""]
        m1 == Append(s.messages, [role |-> "user", content |-> prompt])
        r == generate_response(s.chatbot, prompt, q, gen)
        m2 == Append(m1, [role |-> "assistant", content |-> r.ret])
        m3 == Append(m2, [role |-> "assistant", content |-> r.ret])
    IN  IF ~s.doc_loaded THEN idle(s, NotReadyInfo)
        ELSE IF prompt = "" THEN idle(s, "chat")
        ELSE [s |-> [s EXCEPT !.chatbot = r.self,
                              !.messages = IF r.raised THEN m1 ELSE m3],
              main |-> "chat", asked |-> TRUE, query |-> prompt, ret |-> r.ret,
              raised |-> r.raised, genInvoked |-> r.genInvoked, prompt |-> r.prompt,
              branch |-> r.branch]

Session ==
    [vector_store |-> vector_store, chatbot |-> chatbot, messages |-> messages,
     doc_loaded |-> doc_loaded, nstores |-> nstores]

\* The record of the last step taken: the operation, what it was given and
\* what it showed or returned.  retrieval says what collection.query did
\* ("not_called" when generate_response was not called, else "raised" or
\* "returned", with the ranking in rank); genRaised says what the completion
\* call does when it is made.
Last(op, status, shown, main, ingestCalled, text, count, query, ret, raised, genInvoked, prompt, branch, retrieval, rank, genRaised) ==
    [op |-> op, status |-> status, shown |-> shown, main |-> main,
     ingestCalled |-> ingestCalled, text |-> text, count |-> count,
     query |-> query, ret |-> ret, raised |-> raised, genInvoked |-> genInvoked,
     prompt |-> prompt, branch |-> branch, retrieval |-> retrieval, rank |-> rank,
     genRaised |-> genRaised]

Retrieval(called, q) ==
    IF ~called THEN "not_called" ELSE IF q.raised THEN "raised" ELSE "returned"

NoQuery == [raised |-> FALSE, msg |-> "", rank |-> <<>>]

NoGen == [raised |-> FALSE, msg |-> "", content |-> ""]

NoCtor == [raised |-> FALSE, msg |-> ""]

NoHttp == [raised |-> FALSE, status_code |-> 0, text |-> "", msg |-> ""]

NoAdd == [raised |-> FALSE, msg |-> "", stored |-> 0]

\* One run of the script: the sidebar, then the main interface.
Run(op, clicked, doc_url, api_key, http, ctor, add, groq, prompt, q, gen) ==
    \E sb \in {Sidebar(Session, clicked, doc_url, api_key, http, ctor, add, groq)} :
    \E mi \in {MainInterface(sb.s, prompt, q, gen)} :
        /\ vector_store' = mi.s.vector_store
        /\ chatbot' = mi.s.chatbot
        /\ messages' = mi.s.messages
        /\ doc_loaded' = mi.s.doc_loaded
        /\ nstores' = mi.s.nstores
        /\ asked' = IF mi.asked THEN asked + 1 ELSE asked
        /\ last' = Last(op, sb.status, sb.shown, mi.main, sb.ingestCalled, sb.text,
                        sb.count, mi.query, mi.ret, mi.raised, mi.genInvoked,
                        mi.prompt, mi.branch, Retrieval(mi.asked, q),
                        IF mi.asked THEN q.rank ELSE <<>>, gen.raised)
        /\ UNCHANGED build

StoredChunks(c) == IF c = None THEN 0 ELSE Len(c.vector_store.documents)

\* The user clicks "Load Document".
LoadDocument ==
    /\ build = "app"
    /\ nstores < MaxStores
    /\ \E doc_url \in DocUrls, api_key \in ApiKeys :
        \E http \in IF doc_url # "" /\ api_key # "" THEN HttpOutcomes ELSE {NoHttp} :
        \E ctor \in IF http # NoHttp /\ ~fetch_google_doc(http).raised
                     THEN CtorOutcomes ELSE {NoCtor} :
        \E add \in IF http # NoHttp /\ ~fetch_google_doc(http).raised /\ ~ctor.raised
                    THEN AddOutcomes(Len(chunk_text(fetch_google_doc(http).value)))
                    ELSE {NoAdd} :
        \E groq \in IF http # NoHttp /\ ~fetch_google_doc(http).raised /\ ~ctor.raised
                        /\ ~add.raised
                     THEN GroqOutcomes ELSE {NoCtor} :
            Run("load", TRUE, doc_url, api_key, http, ctor, add, groq, "", NoQuery, NoGen)

\* The user submits a question.
Ask ==
    /\ build = "app"
    /\ asked < MaxQuestions
    /\ \E prompt \in Queries :
        \E q \in IF doc_loaded THEN QueryOutcomes(StoredChunks(chatbot)) ELSE {NoQuery} :
        \E gen \in IF doc_loaded /\ ~q.raised /\ q.rank # <<>> THEN GenOutcomes ELSE {NoGen} :
            Run("ask", FALSE, "", "", NoHttp, NoCtor, NoAdd, NoCtor, prompt, q, gen)

Init ==
    /\ build \in {"app", "modules"}
    /\ vector_store = None
    /\ chatbot = None
    /\ messages = <<>>
    /\ doc_loaded = FALSE
    /\ nstores = 0
    /\ asked = 0
    /\ last = Last("init", "", <<>>, "", FALSE, "", 0, "", "", FALSE, FALSE, "", "",
                   "not_called", <<>>, FALSE)

(***************************************************************************)
(* A client of vector_store.py and chatbot.py                              *)
(***************************************************************************)
DocMetadatas == {[title |-> "Notes"]}

\* VectorStore.ingest_document of vector_store.py.
module_ingest_document(self, text, doc_metadata, add) ==
    LET chunks == chunk_text(text)
        ids == IngestIds(chunks)
        metadatas == IngestMetadatas(chunks, doc_metadata)
        added == collection_add(self, chunks, metadatas, ids, add)
    IN  IF add.raised
        THEN [raised |-> TRUE, msg |-> add.msg, value |-> 0, self |-> added]
        ELSE [raised |-> FALSE, msg |-> "", value |-> Len(chunks),
              self |-> [added EXCEPT !.ingested = TRUE]]

\* A client's set-up, in the order any use of the two classes needs:
\*   vs = VectorStore(); vs.ingest_document(text, doc_metadata)
\*   bot = RAGChatbot(vs, api_key, use_groq)
\* An exception of either call ends the set-up with vs and bot not rebound.
ModuleSetup ==
    /\ build = "modules"
    /\ nstores < MaxStores
    /\ \E ctor \in CtorOutcomes, text \in Texts, doc_metadata \in DocMetadatas,
          use_groq \in BOOLEAN :
        \E add \in IF ctor.raised THEN {NoAdd} ELSE AddOutcomes(Len(chunk_text(text))) :
        \E ing \in {module_ingest_document(NewVectorStore(nstores + 1), text,
                                            doc_metadata, add)} :
            /\ vector_store' = IF ctor.raised \/ ing.raised THEN vector_store ELSE ing.self
            /\ chatbot' = IF ctor.raised \/ ing.raised THEN chatbot
                           ELSE NewModuleRAGChatbot(ing.self, "gsk_key", use_groq)
            /\ nstores' = IF ctor.raised THEN nstores ELSE nstores + 1
            /\ last' = Last("module_setup",
                            IF ctor.raised \/ ing.raised THEN "error" ELSE "success",
                            <<>>, "", ~ctor.raised, IF ctor.raised THEN "" ELSE text,
                            IF ctor.raised THEN 0 ELSE ing.value, "", "",
                            ctor.raised \/ ing.raised, FALSE, "", "",
                            "not_called", <<>>, FALSE)
            /\ UNCHANGED <<build, messages, doc_loaded, asked>>

\* chatbot.generate_response(query)
ModuleAsk ==
    /\ build = "modules"
    /\ chatbot # None
    /\ asked < MaxQuestions
    /\ \E query \in Queries, q \in QueryOutcomes(StoredChunks(chatbot)) :
        \E gen \in IF ~q.raised /\ q.rank # <<>> THEN GenOutcomes ELSE {NoGen} :
        \E r \in {module_generate_response(chatbot, query, q, gen)} :
            /\ chatbot' = r.self
            /\ asked' = asked + 1
            /\ last' = Last("module_ask", "", <<>>, "", FALSE, "", 0, query, r.ret,
                            r.raised, r.genInvoked, r.prompt, r.branch,
                            Retrieval(TRUE, q), q.rank, gen.raised)
            /\ UNCHANGED <<build, vector_store, messages, doc_loaded, nstores>>

Next == LoadDocument \/ Ask \/ ModuleSetup \/ ModuleAsk

Spec == Init /\ [][Next]_vars

(***************************************************************************)
(* Properties                                                              *)
(***************************************************************************)
IsAsk == last.op \in {"ask", "module_ask"}

\* No chatbot of the session, now or in the step before, sits on an index
\* without chunks.
ChunksIndexed == chatbot = None \/ chatbot.vector_store.documents # <<>>

\* C1: when the retriever returns an empty list, generate_response (of
\* app.py and of chatbot.py) returns exactly the fixed no-information
\* sentence and does not call the chat-completions client.
C1_EmptyRetrievalShortCircuits ==
    (IsAsk /\ last.retrieval = "returned" /\ last.rank = <<>>)
        => /\ ~last.raised
           /\ last.ret = "I couldn't find relevant information in the document to answer your question."
           /\ ~last.genInvoked
           /\ last.prompt = ""

C1_Witness ==
    /\ last.op = "ask"
    /\ last.retrieval = "returned"
    /\ last.rank = <<>>
    /\ last.ret = "I couldn't find relevant information in the document to answer your question."

\* C2: generate_response of app.py never raises: a failing retrieval ends
\* in a string starting "Error retrieving information: ", a failing
\* completion call in a string starting "Error generating response: ", and
\* neither prefix starts the other error string, the no-information sentence
\* or an answer returned verbatim.
C2_NeverRaisesAndErrorsDistinct ==
    (last.op = "ask" /\ last.retrieval # "not_called")
        => /\ ~last.raised
           /\ last.ret # ""
           /\ StartsWith(last.ret, "Error retrieving information: ")
                <=> last.retrieval = "raised"
           /\ StartsWith(last.ret, "Error generating response: ")
                <=> (last.retrieval = "returned" /\ last.rank # <<>> /\ last.genRaised)
           /\ last.retrieval = "raised" => ~last.genInvoked

C2_Witness ==
    /\ last.op = "ask"
    /\ last.retrieval = "returned"
    /\ last.genInvoked
    /\ last.genRaised
    /\ last.ret = "Error generating response: rate limit exceeded"

\* C3 (as claimed): every query of a READY session (over an index that
\* holds chunks) that ends with an answer or with an error string appends
\* exactly one turn [query, answer returned] to the conversation log and
\* leaves the earlier turns as they were, and the string returned for a
\* failing completion call contains "Error".
C3_EveryQueryAppendsOneTurn ==
    [][(last'.op = "ask" /\ last' # last /\ ChunksIndexed
        /\ (last'.retrieval = "raised"
            \/ (last'.retrieval = "returned" /\ last'.rank # <<>>)))
       => /\ chatbot'.conversation_history
                = Append(chatbot.conversation_history,
                         [query |-> last'.query, answer |-> last'.ret])
          /\ last'.genRaised /\ last'.genInvoked => Contains(last'.ret, "Error")]_vars

\* C4 (as claimed): a Load Document that fails at any step leaves the
\* session EMPTY (doc_loaded false), also when it was READY (over an index
\* that holds chunks) before.
C4_FailedLoadLeavesEmpty ==
    (last.op = "load" /\ last.status = "error" /\ ChunksIndexed) => ~doc_loaded

\* C5: in the Streamlit session the chat-completions client is called only
\* when doc_loaded is true; while doc_loaded is false a question gets the
\* fixed load-a-document notice, generate_response is not called and the
\* transcript stays empty.
C5_NotReadyNeverGenerates ==
    build = "app"
        => /\ last.genInvoked => doc_loaded
           /\ ~doc_loaded
                => /\ messages = <<>>
                   /\ last.retrieval = "not_called"
                   /\ last.op \in {"load", "ask"}
                        => last.main = "Load a Google Doc from the sidebar to start!"

C5_Witness ==
    /\ last.op = "ask"
    /\ ~doc_loaded
    /\ last.main = "Load a Google Doc from the sidebar to start!"
    /\ ~last.genInvoked

\* C6 (as claimed): ingesting a text that yields zero chunks is reported as
\* a failure, never as a success with 0 chunks, and never leaves the session
\* READY over an empty index.
C6_EmptyDocumentIsFailure ==
    /\ (last.op = "load" /\ last.ingestCalled /\ chunk_text(last.text) = <<>>)
            => last.status = "error"
    /\ doc_loaded => chatbot.vector_store.documents # <<>>

VisibleStores ==
    (IF vector_store = None THEN {} ELSE {vector_store})
    \cup (IF chatbot = None THEN {} ELSE {chatbot.vector_store})

\* C7: in every store the identifiers are pairwise distinct, the ordinal in
\* the i-th metadata is i (from 0), and identifiers, texts and metadatas
\* have the same length; after an ingestion that returned, the i-th text is
\* the i-th chunk of the text ingested, the i-th identifier is chunk_<i>,
\* and the count returned is the number of chunks stored.
C7_IdsDistinctOrdinalsInOrder ==
    /\ \A S \in VisibleStores :
        /\ Len(S.ids) = Len(S.documents)
        /\ Len(S.metadatas) = Len(S.documents)
        /\ \A i, j \in 1..Len(S.ids) : i # j => S.ids[i] # S.ids[j]
        /\ \A i \in 1..Len(S.metadatas) : S.metadatas[i].chunk_id = i - 1
        /\ \A i \in 1..(Len(S.metadatas) - 1) :
                S.metadatas[i].chunk_id < S.metadatas[i + 1].chunk_id
    /\ (last.op \in {"load", "module_setup"} /\ last.ingestCalled
        /\ vector_store # None /\ vector_store.oid = nstores /\ vector_store.ingested)
            => /\ last.count = Len(vector_store.documents)
               /\ vector_store.documents = chunk_text(last.text)
               /\ \A i \in 1..last.count :
                    vector_store.ids[i] = "chunk_" \o ToString(vector_store.metadatas[i].chunk_id)

C7_Witness ==
    /\ last.op = "load"
    /\ last.status = "success"
    /\ last.count = 4
    /\ vector_store.ids = <<"chunk_0", "chunk_1", "chunk_2", "chunk_3">>

\* The labelled segment of the i-th retrieved chunk, with label lbl.
SegmentText(lbl, doc) == "[Section " \o lbl \o "]: " \o doc

\* The store the last question was asked of, and the position in it of the
\* i-th retrieved chunk.
AskedStore == chatbot.vector_store

\* The fixed text before and after the context block and the question.
PromptHead == "Context from document:\n"

PromptTail ==
    "\n\nProvide a concise answer with inline citations like [Section X]. "
    \o "If the answer isn't in the context, say \"This information isn't in the document.\"\n"

\* What a prompt holds between the fixed head and tail.
PromptBody(p) == SubSeq(p, Len(PromptHead) + 1, Len(p) - Len(PromptTail))

\* C8 (amended): when the retrieval result is not empty, the user prompt
\* handed to the chat-completions client holds exactly one labelled segment
\* per retrieved chunk, at most 3, in the retriever's rank order, each
\* "[Section <n>]: <chunk text>" with <n> the ordinal stored in the chunk's
\* metadata (not the identifier chunk_<n> given to the index), and holds the
\* query text.
C8_PromptSegmentsByOrdinal ==
    (IsAsk /\ last.genInvoked)
        => LET n == Len(last.rank)
               segs == [i \in 1..n |->
                          SegmentText(ToString(last.rank[i] - 1),
                                      AskedStore.documents[last.rank[i]])]
           IN  /\ n >= 1
               /\ n <= 3
               /\ StartsWith(last.prompt, PromptHead)
               /\ OccursAt(last.prompt, PromptTail, Len(last.prompt) - Len(PromptTail) + 1)
               /\ \E body \in {PromptBody(last.prompt)} :
                    /\ \E at \in {[i \in 1..n |-> Pos(body, segs[i])]} :
                        /\ \A i \in 1..n : at[i] > 0
                        /\ \A i \in 1..(n - 1) : at[i] < at[i + 1]
                    /\ Count(body, "[Section ") = n
                    /\ Contains(body, last.query)

C8_Witness ==
    /\ last.op = "ask"
    /\ last.genInvoked
    /\ last.rank = <<3, 4, 1>>
    /\ Contains(last.prompt, "[Section 3]: p3")

\* C8 (as claimed): the label of each segment is the chunk's identifier.
C8_PromptSegmentsByIdentifier ==
    (IsAsk /\ last.genInvoked)
        => \A i \in 1..Len(last.rank) :
                Contains(last.prompt,
                         SegmentText(AskedStore.ids[last.rank[i]],
                                     AskedStore.documents[last.rank[i]]))

\* C9 (as claimed): doc_loaded implies that the session's chatbot and
\* vector store are set, that the chatbot's store is the session's store,
\* and that this store has completed an ingestion.
C9_ReadyMeansOneIngestedStore ==
    (build = "app" /\ doc_loaded /\ ChunksIndexed)
        => /\ chatbot # None
           /\ vector_store # None
           /\ chatbot.vector_store.oid = vector_store.oid
           /\ vector_store.ingested

\* C10 (as claimed): the transcript gains one user entry then one assistant
\* entry per question: roles alternate and the length is twice the number
\* of questions.
C10_TranscriptAlternates ==
    (build = "app" /\ ChunksIndexed)
        => /\ Len(messages) = 2 * asked
           /\ \A i \in 1..Len(messages) :
                messages[i].role = IF i % 2 = 1 THEN "user" ELSE "assistant"

====
